---- MODULE Spec2Model ----
(***************************************************************************)
(* Model of the finance permission system: the hierarchy resolvers, the    *)
(* scope builders, the batched executors and the pagination strategies of  *)
(* main.py, database.py, mysql_database.py, high_concurrency_pagination.py,*)
(* accurate_pagination.py, optimized_cursor_pagination.py,                 *)
(* alternative_permission_with_pagination.py and verify_or_logic.py.       *)
(*                                                                         *)
(* The tables are loaded once (create_million.py) and are read-only        *)
(* afterwards; every request handler is one action that leaves its answer  *)
(* in resp.  Python lists are sequences, Python sets and SQL tables with a *)
(* primary key are sets or functions keyed by the primary key.             *)
(*                                                                         *)
(* Row limits of the source are scaled down so that the small tables of    *)
(* the model reach them: 500 -> 2, 1000 -> 3, 2000 -> 6 (the proportions   *)
(* 1 : 2 : 4 are rounded so that a chunk is smaller than a row limit).     *)
(***************************************************************************)
EXTENDS Integers, Sequences, FiniteSets, TLC

VARIABLES users, orders, customers, financial_funds, user_hierarchy,
          memory_cache, resp, walk,
          callers, now, timers, stored_at,
          mv_supervisor_financial, last_refresh,
          db_pool, opened, broken, workers, cache_lock

vars == <<users, orders, customers, financial_funds, user_hierarchy,
          memory_cache, resp, walk, callers, now, timers, stored_at,
          mv_supervisor_financial, last_refresh,
          db_pool, opened, broken, workers, cache_lock>>

\* the threads that call get_user_permissions, the clock, the timers of the
\* memory cache, and the time of the last store of every cache key
threads == <<callers, now, timers, stored_at>>

\* the snapshot table and the outcome of its last refresh
snapshot == <<mv_supervisor_financial, last_refresh>>

\* the idle connections of db_pool, the connections that are open at the
\* server, those of them that lost their session, and the threads that use
\* a connection
pooling == <<db_pool, opened, broken, workers>>

\* the database with its connections, and the lock of the memory cache
tables == <<users, orders, customers, financial_funds, user_hierarchy, snapshot,
            pooling, cache_lock>>

(***************************************************************************)
(* Identifiers and the base rows of create_million.py insert_base_data.    *)
(***************************************************************************)
NULL == 0

BaseUserIds == {1, 2, 3, 4}
GenUserIds == {5}
UserIds == BaseUserIds \cup GenUserIds
\* an id that has no row in the users table
UnknownUserIds == {9}

BaseOrderIds == {2001, 2002, 2003}
GenOrderIds == {2004}
OrderIds == BaseOrderIds \cup GenOrderIds

BaseCustomerIds == {3001, 3002, 3003}
GenCustomerIds == {3004}
CustomerIds == BaseCustomerIds \cup GenCustomerIds

BaseFundIds == {1001, 1002, 1003}
GenFundIds == {1004, 1005}
FundIds == BaseFundIds \cup GenFundIds

base_users ==
    (1 :> [role |-> "admin", parent_id |-> NULL]) @@
    (2 :> [role |-> "supervisor", parent_id |-> 1]) @@
    (3 :> [role |-> "staff", parent_id |-> 2]) @@
    (4 :> [role |-> "staff", parent_id |-> 1])

base_orders == (2001 :> 3) @@ (2002 :> 2) @@ (2003 :> 3)

base_customers == (3001 :> 3) @@ (3002 :> 2) @@ (3003 :> 3)

base_funds ==
    (1001 :> [handle_by |-> 3, order_id |-> 2001, customer_id |-> 3001, amount |-> 50000]) @@
    (1002 :> [handle_by |-> 2, order_id |-> 2002, customer_id |-> 3002, amount |-> 80000]) @@
    (1003 :> [handle_by |-> 3, order_id |-> 2003, customer_id |-> 3003, amount |-> 60000])

base_hierarchy ==
    { <<1, 1, 0>>, <<1, 2, 1>>, <<1, 3, 2>>, <<1, 4, 1>>,
      <<2, 2, 0>>, <<2, 3, 1>>, <<3, 3, 0>>, <<4, 4, 0>> }

(***************************************************************************)
(* The generated rows of create_million.py insert_bulk_data: a generated   *)
(* user is an admin without a parent or reports to an earlier user; the    *)
(* owners, handlers and amounts are random.  The model draws them from     *)
(* the menus below.                                                        *)
(***************************************************************************)
GenUserChoices ==
    { [role |-> "staff", parent_id |-> 2],
      [role |-> "staff", parent_id |-> 3],
      [role |-> "supervisor", parent_id |-> 4],
      [role |-> "admin", parent_id |-> NULL] }

GenOwnerChoices == {4, 5}

GenFundChoices ==
    { [handle_by |-> h, order_id |-> o, customer_id |-> c, amount |-> a] :
        h \in {2, 4}, o \in {2001, 2004}, c \in {3002, 3004}, a \in {50000, 80000} }

\* the second generated fund: its handler is outside every scope but the
\* admin's, its order and customer are the generated ones
GenFundChoices2 ==
    { [handle_by |-> 4, order_id |-> 2004, customer_id |-> 3004, amount |-> 50000] }

(***************************************************************************)
(* Sequences                                                               *)
(***************************************************************************)
Range(s) == { s[i] : i \in 1..Len(s) }

Min(a, b) == IF a < b THEN a ELSE b
Max(a, b) == IF a > b THEN a ELSE b

\* Python s[i:j] with 0 <= i, counted from 0, clipped at the end
Slice(s, i, j) ==
    IF i >= Min(j, Len(s)) THEN << >>
    ELSE SubSeq(s, i + 1, Min(j, Len(s)))

MinOf(S) == CHOOSE x \in S : \A y \in S : x <= y

RECURSIVE SortAsc(_)
\* the elements of a set of integers in ascending order
SortAsc(S) ==
    IF S = {} THEN << >>
    ELSE LET m == MinOf(S) IN <<m>> \o SortAsc(S \ {m})

RECURSIVE Concat(_)
Concat(ss) == IF ss = << >> THEN << >> ELSE Head(ss) \o Concat(Tail(ss))

RECURSIVE NoDup(_)
NoDup(s) ==
    IF s = << >> THEN TRUE
    ELSE Head(s) \notin Range(Tail(s)) /\ NoDup(Tail(s))

(***************************************************************************)
(* create_million.py: the hierarchy table after the bulk load holds the    *)
(* base rows, a depth-1 row for every direct report and a depth-0 row for  *)
(* every user that has none.                                               *)
(***************************************************************************)
insert_bulk_hierarchy(u) ==
    LET direct == { <<u[c].parent_id, c, 1>> :
                      c \in { x \in DOMAIN u : u[x].parent_id \in DOMAIN u /\ u[x].parent_id # x } }
        new1 == { r \in direct : ~ \E b \in base_hierarchy : b[1] = r[1] /\ b[2] = r[2] }
        h1 == base_hierarchy \cup new1
        self == { <<x, x, 0>> : x \in { y \in DOMAIN u : ~ \E r \in h1 : r[1] = y /\ r[3] = 0 } }
    IN h1 \cup { r \in self : ~ \E b \in h1 : b[1] = r[1] /\ b[2] = r[2] }

(***************************************************************************)
(* Hierarchy resolution                                                    *)
(***************************************************************************)
\* the users whose parent_id is p, in ascending id order (dict order of
\* main.py, index order of idx_users_parent_id)
ChildrenOf(u, p) == SortAsc({ x \in DOMAIN u : u[x].parent_id = p })

RECURSIVE main_get_subordinates_loop(_, _, _)
main_get_subordinates_loop(u, stack, subordinates) ==
    IF stack = << >> THEN subordinates
    ELSE LET current == stack[Len(stack)]
             rest == SubSeq(stack, 1, Len(stack) - 1)
         IN main_get_subordinates_loop(u, rest \o ChildrenOf(u, current),
                                       subordinates \cup {current})

\* main.py PermissionService.get_subordinates
main_get_subordinates(u, user_id) ==
    main_get_subordinates_loop(u, <<user_id>>, {})

\* database.py: "s.depth < 3" and "LIMIT 1000" of the recursive query
SqliteDepthLimit == 3
SqliteCteLimit == 3

RECURSIVE sqlite_cte(_, _, _, _)
\* SQLite runs a recursive query as a queue: a row is taken from the queue,
\* put into the result (until LIMIT rows are there), and the rows the
\* recursive select yields for it that UNION has not seen go to the queue.
sqlite_cte(u, queue, seen, out) ==
    IF queue = << >> \/ Len(out) >= SqliteCteLimit THEN out
    ELSE LET row == Head(queue)
             kids == IF row[2] < SqliteDepthLimit
                     THEN SelectSeq([i \in 1..Len(ChildrenOf(u, row[1])) |->
                                       <<ChildrenOf(u, row[1])[i], row[2] + 1>>],
                                    LAMBDA r : r \notin seen)
                     ELSE << >>
         IN sqlite_cte(u, Tail(queue) \o kids, seen \cup Range(kids), Append(out, row))

\* database.py DatabasePermissionService.get_subordinates
sqlite_get_subordinates(u, user_id) ==
    { r[1] : r \in Range(sqlite_cte(u, << <<user_id, 0>> >>, { <<user_id, 0>> }, << >>)) }
        \cup {user_id}

RECURSIVE mysql_cte(_, _, _)
\* WITH RECURSIVE ... UNION ALL: every level joins users to the rows of the
\* level before
mysql_cte(u, level, acc) ==
    IF level = << >> THEN acc
    ELSE mysql_cte(u, Concat([i \in 1..Len(level) |-> ChildrenOf(u, level[i])]),
                   acc \o level)

\* mysql_database.py MySQLPermissionService.get_subordinates: the set
\* {user_id} of line 416 is overwritten by the rows of the query, whose
\* anchor is "SELECT id FROM users WHERE id = %s"
mysql_get_subordinates(u, user_id) ==
    Range(mysql_cte(u, IF user_id \in DOMAIN u THEN <<user_id>> ELSE << >>, << >>))

Idle == [op |-> "idle"]
\* the threads of simulate_concurrent_load, and a thread that is not in a call
Callers == {1, 2}
IdleCaller == [pc |-> "idle"]
NoWalk == [kind |-> "none"]
\* the snapshot table was never filled
NoRefresh == [path |-> "none", ok |-> TRUE, before |-> {}]

\* pool_size = 20 of ConnectionPool
PoolSize == 2
Workers == 1..(PoolSize + 1)

\* ConnectionPool._create_pool: pool_size connections, named 1..pool_size
create_pool == [i \in 1..PoolSize |-> i]

Init ==
    /\ \E g \in GenUserChoices : users = base_users @@ (5 :> g)
    /\ \E o \in GenOwnerChoices : orders = base_orders @@ (2004 :> o)
    /\ \E c \in GenOwnerChoices : customers = base_customers @@ (3004 :> c)
    /\ \E f1 \in GenFundChoices, f2 \in GenFundChoices2 :
          financial_funds = base_funds @@ (1004 :> f1) @@ (1005 :> f2)
    /\ user_hierarchy = insert_bulk_hierarchy(users)
    /\ memory_cache = [u \in {} |-> 0]
    /\ resp = Idle
    /\ walk = NoWalk
    /\ callers = [c \in Callers |-> IdleCaller]
    /\ now = 0
    /\ timers = {}
    /\ stored_at = [k \in {} |-> 0]
    /\ mv_supervisor_financial = {}
    /\ last_refresh = NoRefresh
    /\ db_pool = create_pool
    /\ opened = Range(create_pool)
    /\ broken = {}
    /\ workers = [w \in Workers |-> [pc |-> "idle"]]
    /\ cache_lock = NULL

(***************************************************************************)
(* SQL result orders.  A query without ORDER BY returns its rows in the    *)
(* order of the index it scans: the primary key, or (column, primary key)  *)
(* for a secondary index.                                                  *)
(***************************************************************************)
RECURSIVE SortByCol(_, _)
\* the keys of S ordered by (col[k], k)
SortByCol(S, col) ==
    IF S = {} THEN << >>
    ELSE LET m == CHOOSE x \in S :
                    \A y \in S : col[x] < col[y] \/ (col[x] = col[y] /\ x <= y)
         IN <<m>> \o SortByCol(S \ {m}, col)

Limit(s, n) == Slice(s, 0, n)

\* list(a_set) of Python for a set of small integers
ListOfSet(S) == SortAsc(S)

FundCol(f, field) == [k \in DOMAIN f |-> f[k][field]]

\* the orders of every user: the WHERE clause is lost
SelectOrderIds_NoWhere(o, ids) == SortByCol(DOMAIN o, o)

\* SELECT order_id FROM orders WHERE user_id IN (ids)
SelectOrderIds(o, ids) == SortByCol({ k \in DOMAIN o : o[k] \in ids }, o)

\* SELECT customer_id FROM customers WHERE admin_user_id IN (ids)
SelectCustomerIds(c, ids) == SortByCol({ k \in DOMAIN c : c[k] \in ids }, c)

\* SELECT ... FROM financial_funds WHERE <field> IN (ids)
SelectFundsIn(f, field, ids) ==
    SortByCol({ k \in DOMAIN f : f[k][field] \in ids }, FundCol(f, field))

\* the rows of financial_funds that satisfy the OR of the non-empty
\* conditions "handle_by IN h OR order_id IN o OR customer_id IN c"
MatchOr(f, h, o, c) ==
    { k \in DOMAIN f : \/ f[k].handle_by \in h
                        \/ f[k].order_id \in o
                        \/ f[k].customer_id \in c }

(***************************************************************************)
(* main.py: scope and list                                                 *)
(***************************************************************************)
\* PermissionService.get_accessible_data_scope
main_get_accessible_data_scope(u, o, c, user_id) ==
    LET role == u[user_id].role
        subordinates == main_get_subordinates(u, user_id)
    IN CASE role = "admin" ->
              [handle_by |-> DOMAIN u, order_ids |-> DOMAIN o, customer_ids |-> DOMAIN c]
         [] role = "supervisor" ->
              [handle_by |-> { x \in DOMAIN u : x \in subordinates },
               order_ids |-> { k \in DOMAIN o : o[k] \in subordinates },
               customer_ids |-> { k \in DOMAIN c : c[k] \in subordinates }]
         [] role = "staff" ->
              [handle_by |-> {user_id},
               order_ids |-> { k \in DOMAIN o : o[k] = user_id },
               customer_ids |-> { k \in DOMAIN c : c[k] = user_id }]
         [] OTHER -> [handle_by |-> {}, order_ids |-> {}, customer_ids |-> {}]

\* FinancialService.get_funds: the funds in list order that match a dimension
main_get_funds(u, o, c, f, user_id) ==
    LET scope == main_get_accessible_data_scope(u, o, c, user_id)
    IN SelectSeq(SortAsc(DOMAIN f),
                 LAMBDA k : \/ f[k].handle_by \in scope.handle_by
                            \/ f[k].order_id \in scope.order_ids
                            \/ f[k].customer_id \in scope.customer_ids)

(***************************************************************************)
(* database.py (SQLite): scope and list                                    *)
(***************************************************************************)
\* max_vars = 500
MaxVars == 2
\* LIMIT 1000 of the scope and fund queries, "len(results) >= 1000"
RowLimit == 3
\* "all_results[:2000]"
ScanLimit == 6
\* LIMIT 100 of the admin samples
AdminSampleLimit == 1
\* LIMIT 10000 of the staff queries of database.py
StaffRowLimit == 30

\* DatabasePermissionService.get_accessible_data_scope
sqlite_get_accessible_data_scope(u, o, c, user_id) ==
    LET role == u[user_id].role
        subordinates == sqlite_get_subordinates(u, user_id)
    IN CASE role = "admin" ->
              [is_admin |-> TRUE,
               handle_by |-> Range(Limit(SortAsc(DOMAIN u), AdminSampleLimit)),
               order_ids |-> Range(Limit(SortAsc(DOMAIN o), AdminSampleLimit)),
               customer_ids |-> Range(Limit(SortAsc(DOMAIN c), AdminSampleLimit))]
         [] role = "supervisor" ->
              [is_admin |-> FALSE,
               handle_by |-> subordinates,
               order_ids |-> Range(Limit(SelectOrderIds(o, subordinates \cap DOMAIN u), RowLimit)),
               customer_ids |-> Range(Limit(SelectCustomerIds(c, subordinates \cap DOMAIN u), RowLimit))]
         [] role = "staff" ->
              [is_admin |-> FALSE,
               handle_by |-> {user_id},
               order_ids |-> Range(Limit(SelectOrderIds(o, {user_id}), StaffRowLimit)),
               customer_ids |-> Range(Limit(SelectCustomerIds(c, {user_id}), StaffRowLimit))]
         [] OTHER -> [is_admin |-> FALSE, handle_by |-> {}, order_ids |-> {}, customer_ids |-> {}]

RECURSIVE execute_chunked_query(_, _, _, _, _)
\* database.py execute_chunked_query, from chunk offset i on
execute_chunked_query(f, field_name, id_list, i, results) ==
    IF i >= Len(id_list) THEN results
    ELSE LET chunk == Slice(id_list, i, i + MaxVars)
             more == results \o Limit(SelectFundsIn(f, field_name, Range(chunk)), RowLimit)
         IN IF Len(more) >= RowLimit THEN more
            ELSE execute_chunked_query(f, field_name, id_list, i + MaxVars, more)

RECURSIVE chunked_query_chunks(_, _, _, _, _)
\* the chunks execute_chunked_query sends, in order: the same loop, with the
\* same break once results holds RowLimit rows
chunked_query_chunks(f, field_name, id_list, i, results) ==
    IF i >= Len(id_list) THEN << >>
    ELSE LET chunk == Slice(id_list, i, i + MaxVars)
             more == results \o Limit(SelectFundsIn(f, field_name, Range(chunk)), RowLimit)
         IN IF Len(more) >= RowLimit THEN <<chunk>>
            ELSE <<chunk>> \o chunked_query_chunks(f, field_name, id_list, i + MaxVars, more)

RECURSIVE UniqueFunds(_, _, _)
\* the loop over the sorted rows that keeps the first row of every fund_id
\* and stops at RowLimit funds
UniqueFunds(rows, seen_ids, filtered_funds) ==
    IF rows = << >> \/ Len(filtered_funds) >= RowLimit THEN filtered_funds
    ELSE IF Head(rows) \in seen_ids
         THEN UniqueFunds(Tail(rows), seen_ids, filtered_funds)
         ELSE UniqueFunds(Tail(rows), seen_ids \cup {Head(rows)}, Append(filtered_funds, Head(rows)))

RECURSIVE SortSeqAsc(_)
\* list.sort() by fund_id: rows are fund ids here, so equal keys are equal rows
SortSeqAsc(s) ==
    IF s = << >> THEN << >>
    ELSE LET m == MinOf(Range(s))
         IN SelectSeq(s, LAMBDA x : x = m) \o SortSeqAsc(SelectSeq(s, LAMBDA x : x # m))

\* DatabaseFinancialService.get_funds
sqlite_get_funds(u, o, c, f, user_id) ==
    LET scope == sqlite_get_accessible_data_scope(u, o, c, user_id)
        handle_by_list == ListOfSet(scope.handle_by)
        order_ids_list == ListOfSet(scope.order_ids)
        customer_ids_list == ListOfSet(scope.customer_ids)
        r1 == IF handle_by_list # << >>
              THEN execute_chunked_query(f, "handle_by", handle_by_list, 0, << >>) ELSE << >>
        r2 == IF Len(r1) < RowLimit /\ order_ids_list # << >>
              THEN r1 \o execute_chunked_query(f, "order_id", order_ids_list, 0, << >>) ELSE r1
        r3 == IF Len(r2) < RowLimit /\ customer_ids_list # << >>
              THEN r2 \o execute_chunked_query(f, "customer_id", customer_ids_list, 0, << >>) ELSE r2
        all_results == IF scope.is_admin
                       THEN Limit(SortByCol(DOMAIN f, FundCol(f, "handle_by")), RowLimit)
                       ELSE r3
    IN UniqueFunds(Limit(SortSeqAsc(all_results), ScanLimit), {}, << >>)

(***************************************************************************)
(* mysql_database.py: scope and list                                       *)
(***************************************************************************)
\* MySQLPermissionService.get_accessible_data_scope
mysql_get_accessible_data_scope(u, o, c, user_id) ==
    LET role == u[user_id].role
        subordinates == mysql_get_subordinates(u, user_id)
    IN CASE role = "admin" ->
              [is_admin |-> TRUE,
               handle_by |-> Range(Limit(SortAsc(DOMAIN u), AdminSampleLimit)),
               order_ids |-> Range(Limit(SortAsc(DOMAIN o), AdminSampleLimit)),
               customer_ids |-> Range(Limit(SortAsc(DOMAIN c), AdminSampleLimit))]
         [] role = "supervisor" ->
              [is_admin |-> FALSE,
               handle_by |-> subordinates,
               order_ids |-> IF subordinates # {}
                             THEN Range(Limit(SelectOrderIds(o, subordinates), RowLimit)) ELSE {},
               customer_ids |-> IF subordinates # {}
                                THEN Range(Limit(SelectCustomerIds(c, subordinates), RowLimit)) ELSE {}]
         [] role = "staff" ->
              [is_admin |-> FALSE,
               handle_by |-> {user_id},
               order_ids |-> Range(Limit(SelectOrderIds(o, {user_id}), RowLimit)),
               customer_ids |-> Range(Limit(SelectCustomerIds(c, {user_id}), RowLimit))]
         [] OTHER -> [is_admin |-> FALSE, handle_by |-> {}, order_ids |-> {}, customer_ids |-> {}]

\* MySQLFinancialService.get_funds: a dimension with more than 1000 ids is
\* left out of the WHERE clause, and the query ends with LIMIT 1000
mysql_get_funds(u, o, c, f, user_id) ==
    LET scope == mysql_get_accessible_data_scope(u, o, c, user_id)
        h == IF Cardinality(scope.handle_by) <= RowLimit THEN scope.handle_by ELSE {}
        oi == IF Cardinality(scope.order_ids) <= RowLimit THEN scope.order_ids ELSE {}
        ci == IF Cardinality(scope.customer_ids) <= RowLimit THEN scope.customer_ids ELSE {}
    IN IF scope.is_admin THEN Limit(SortAsc(DOMAIN f), RowLimit)
       ELSE IF h = {} /\ oi = {} /\ ci = {} THEN << >>
       ELSE Limit(SortAsc(MatchOr(f, h, oi, ci)), RowLimit)

(***************************************************************************)
(* Sorting                                                                 *)
(***************************************************************************)
SortKeys == {"fund_id", "amount"}
SortOrders == {"ASC", "DESC"}

\* the value of the sort column of every fund
SortCol(f, sort_by) ==
    IF sort_by = "fund_id" THEN [k \in DOMAIN f |-> k] ELSE FundCol(f, sort_by)

RECURSIVE list_sort(_, _, _)
\* Python list.sort(key=..., reverse=...): stable, also with reverse=True
list_sort(s, key, reverse) ==
    IF s = << >> THEN << >>
    ELSE LET first(i) == \A j \in 1..Len(s) :
                            IF reverse THEN key[s[j]] <= key[s[i]] ELSE key[s[i]] <= key[s[j]]
             i == CHOOSE i \in 1..Len(s) : first(i) /\ \A j \in 1..(i - 1) : ~ first(j)
         IN <<s[i]>> \o list_sort(SubSeq(s, 1, i - 1) \o SubSeq(s, i + 1, Len(s)), key, reverse)

RECURSIVE sql_order_by(_, _, _)
\* ORDER BY <col> ASC|DESC: the orders the server may return; rows with
\* equal values of the column come in any order
sql_order_by(S, col, desc) ==
    IF S = {} THEN { << >> }
    ELSE LET best == { x \in S : \A y \in S :
                          IF desc THEN col[y] <= col[x] ELSE col[x] <= col[y] }
         IN UNION { { <<x>> \o t : t \in sql_order_by(S \ {x}, col, desc) } : x \in best }

(***************************************************************************)
(* The permission lists read from user_hierarchy, orders and customers     *)
(* (get_subordinate_ids, get_order_ids_for_users, get_customer_ids_for_    *)
(* users and the body of get_user_permissions)                             *)
(***************************************************************************)
get_subordinate_ids(h, supervisor_id) ==
    SortAsc({ r[2] : r \in { x \in h : x[1] = supervisor_id } })

query_permissions(h, o, c, supervisor_id) ==
    LET rows == get_subordinate_ids(h, supervisor_id)
        subordinate_ids == IF supervisor_id \in Range(rows) THEN rows
                           ELSE Append(rows, supervisor_id)
    IN [subordinate_ids |-> subordinate_ids,
        order_ids |-> SelectOrderIds(o, Range(subordinate_ids)),
        customer_ids |-> SelectCustomerIds(c, Range(subordinate_ids))]

(***************************************************************************)
(* high_concurrency_pagination.py                                          *)
(***************************************************************************)
\* batch_size = 1000 of execute_batch_query and of the temporary tables
BatchSize == 3

\* PermissionCache.get_permissions (memory cache): the entry, or None
get_permissions(cache, supervisor_id) ==
    IF supervisor_id \in DOMAIN cache
    THEN [found |-> TRUE, data |-> cache[supervisor_id]]
    ELSE [found |-> FALSE]

\* PermissionCache.set_permissions
set_permissions(cache, supervisor_id, permissions_data) ==
    [k \in DOMAIN cache \cup {supervisor_id} |->
        IF k = supervisor_id THEN permissions_data ELSE cache[k]]

\* get_user_permissions: the permissions returned
get_user_permissions(cache, h, o, c, supervisor_id) ==
    LET cached_permissions == get_permissions(cache, supervisor_id)
    IN IF cached_permissions.found THEN cached_permissions.data
       ELSE query_permissions(h, o, c, supervisor_id)

\* get_user_permissions: the cache afterwards
cache_after(cache, h, o, c, supervisor_id) ==
    IF get_permissions(cache, supervisor_id).found THEN cache
    ELSE set_permissions(cache, supervisor_id, query_permissions(h, o, c, supervisor_id))

\* ttl = 300 seconds of set_permissions, and the end of the clock
Ttl == 2
MaxTime == 4

\* a timer that leaves the entry in the cache
timer_pop_nothing(cache, cache_key) == cache

\* the lambda of the timer of set_permissions: memory_cache.pop(cache_key, None)
timer_pop(cache, cache_key) == [k \in DOMAIN cache \ {cache_key} |-> cache[k]]

RECURSIVE execute_batch_query(_, _, _, _)
\* execute_batch_query: one query per slice of batch_size parameters
execute_batch_query(f, field, params, i) ==
    IF i >= Len(params) THEN << >>
    ELSE SelectFundsIn(f, field, Range(Slice(params, i, i + BatchSize)))
           \o execute_batch_query(f, field, params, i + BatchSize)

RECURSIVE batch_query_chunks(_, _)
\* the slices execute_batch_query sends, in order, one query each
batch_query_chunks(params, i) ==
    IF i >= Len(params) THEN << >>
    ELSE <<Slice(params, i, i + BatchSize)>> \o batch_query_chunks(params, i + BatchSize)

\* the offsets of the slices of params, one query each
batch_offsets(params) == { i \in 0..(Len(params) - 1) : i % BatchSize = 0 }

\* cursor.execute raises for a query of the set failing: nothing catches it in
\* execute_batch_query, so the exception leaves the function (and the rows of
\* the slices before it are lost with it)
execute_batch_query_raises(field, params, failing) ==
    \E i \in batch_offsets(params) : <<field, i>> \in failing

\* the rows of all futures as they come, a fund once per future that found it
unique_funds_extend(all_funds, seen) == all_funds

RECURSIVE unique_funds(_, _)
\* the dict keyed by fund_id that keeps the first row of every fund
unique_funds(all_funds, seen) ==
    IF all_funds = << >> THEN << >>
    ELSE IF Head(all_funds) \in seen THEN unique_funds(Tail(all_funds), seen)
         ELSE <<Head(all_funds)>> \o unique_funds(Tail(all_funds), seen \cup {Head(all_funds)})

\* get_financial_funds_parallel: the three futures are collected in the
\* order they were submitted; "except Exception" drops a future that raised
get_financial_funds_parallel(f, handle_by_ids, order_ids, customer_ids, failing) ==
    LET result(field, ids) ==
            IF ids = << >> \/ execute_batch_query_raises(field, ids, failing) THEN << >>
            ELSE execute_batch_query(f, field, ids, 0)
        all_funds == result("handle_by", handle_by_ids) \o result("order_id", order_ids)
                        \o result("customer_id", customer_ids)
    IN unique_funds(all_funds, {})

total_pages_of(total_count, page_size) ==
    IF total_count > 0 THEN (total_count + page_size - 1) \div page_size ELSE 1

\* get_paginated_financial_data
get_paginated_financial_data(cache, h, o, c, f, supervisor_id, page, page_size, sort_by, sort_order, failing) ==
    LET permissions == get_user_permissions(cache, h, o, c, supervisor_id)
        found == get_financial_funds_parallel(f, permissions.subordinate_ids,
                                              permissions.order_ids, permissions.customer_ids, failing)
        reverse == (sort_order = "DESC")
        all_funds == list_sort(found, SortCol(f, IF sort_by \in {"fund_id", "amount", "handle_by"}
                                                 THEN sort_by ELSE "fund_id"), reverse)
        total_count == Len(all_funds)
        start_idx == (page - 1) * page_size
        total_pages == total_pages_of(total_count, page_size)
    IN [items |-> Slice(all_funds, start_idx, start_idx + page_size),
        total_count |-> total_count,
        has_next |-> page < total_pages,
        has_prev |-> page > 1,
        error |-> FALSE]

(***************************************************************************)
(* accurate_pagination.py                                                  *)
(***************************************************************************)
RECURSIVE insert_ignore(_, _)
\* INSERT IGNORE INTO a table whose primary key is fund_id
insert_ignore(table, rows) ==
    IF rows = << >> THEN table
    ELSE insert_ignore(IF Head(rows) \in Range(table) THEN table ELSE Append(table, Head(rows)),
                       Tail(rows))

\* only the first slice of the ids is inserted
insert_first_batch(table, f, field, ids, i) ==
    insert_ignore(table, SelectFundsIn(f, field, Range(Slice(ids, 0, BatchSize))))

RECURSIVE insert_batches(_, _, _, _, _)
\* one INSERT IGNORE ... SELECT per slice of batch_size ids
insert_batches(table, f, field, ids, i) ==
    IF i >= Len(ids) THEN table
    ELSE insert_batches(insert_ignore(table, SelectFundsIn(f, field, Range(Slice(ids, i, i + BatchSize)))),
                        f, field, ids, i + BatchSize)

\* create_temp_permission_table: the rows of the temporary table
create_temp_permission_table(f, handle_by_ids, order_ids, customer_ids) ==
    LET t1 == insert_batches(<< >>, f, "handle_by", handle_by_ids, 0)
        t2 == insert_batches(t1, f, "order_id", order_ids, 0)
    IN insert_batches(t2, f, "customer_id", customer_ids, 0)

\* JOIN users u ON <row>.handle_by = u.id
JoinUsers(u, f, S) == { k \in S : f[k].handle_by \in DOMAIN u }

\* accurate_pagination_service: the answers it can give (one per order the
\* server may choose among rows with equal sort values)
accurate_pagination_service(u, h, o, c, f, supervisor_id, page, page_size, sort_by, sort_order) ==
    LET permissions == query_permissions(h, o, c, supervisor_id)
        temp == create_temp_permission_table(f, permissions.subordinate_ids,
                                             permissions.order_ids, permissions.customer_ids)
        total_count == Len(temp)
        offset == (page - 1) * page_size
        total_pages == total_pages_of(total_count, page_size)
    IN { [items |-> Slice(rows, offset, offset + page_size),
          total_count |-> total_count,
          has_next |-> page < total_pages,
          has_prev |-> page > 1,
          error |-> FALSE] :
         rows \in sql_order_by(JoinUsers(u, f, Range(temp)), SortCol(f, sort_by), sort_order = "DESC") }

(***************************************************************************)
(* optimized_cursor_pagination.py                                          *)
(***************************************************************************)
\* "if page <= 10: batch_size = 500 else: batch_size = 1000"
EarlyPages == 10
SmallBatch == 2
\* sample_size = min(100, ...)
EstimateSample == 1

\* estimate_total_count; int(sample_count * (total_ids / sample_ids)) is
\* taken as the integer quotient
estimate_total_count(f, handle_by_ids, order_ids, customer_ids) ==
    LET sample_size == Min(Min(EstimateSample, Len(handle_by_ids)),
                           Min(Len(order_ids), Len(customer_ids)))
        sample_count == Cardinality(MatchOr(f, Range(Limit(handle_by_ids, sample_size)),
                                            Range(Limit(order_ids, sample_size)),
                                            Range(Limit(customer_ids, sample_size))))
        total_ids == Len(handle_by_ids) + Len(order_ids) + Len(customer_ids)
        sample_ids == 3 * sample_size
    IN IF sample_size = 0 THEN 0 ELSE (sample_count * total_ids) \div sample_ids

RECURSIVE optimized_batches(_, _, _, _, _, _, _, _, _)
\* the loop over the batches of get_financial_funds_optimized_pagination,
\* from batch st.batch_idx on: the lists all_results it can end with
optimized_batches(u, f, p, page_size, offset, col, desc, batch_size, st) ==
    LET max_ids == Max(Max(Len(p.subordinate_ids), Len(p.order_ids)), Len(p.customer_ids))
        total_batches == IF max_ids > 0 THEN (max_ids + batch_size - 1) \div batch_size ELSE 0
        start_idx == st.batch_idx * batch_size
        end_idx == start_idx + batch_size
        batch_handle_by == Slice(p.subordinate_ids, start_idx, end_idx)
        batch_order_ids == Slice(p.order_ids, start_idx, end_idx)
        batch_customer_ids == Slice(p.customer_ids, start_idx, end_idx)
        no_conditions == batch_handle_by = << >> /\ batch_order_ids = << >> /\ batch_customer_ids = << >>
        match == MatchOr(f, Range(batch_handle_by), Range(batch_order_ids), Range(batch_customer_ids))
        batch_count == Cardinality(match)
        counting == st.current_offset < offset
        skip_batch == counting /\ st.current_offset + batch_count <= offset
        skip_in_batch == IF counting THEN offset - st.current_offset ELSE 0
        current_offset == IF counting THEN offset ELSE st.current_offset
        remaining_needed == page_size - Len(st.all_results)
        next(all_results, off) ==
            optimized_batches(u, f, p, page_size, offset, col, desc, batch_size,
                              [batch_idx |-> st.batch_idx + 1, all_results |-> all_results,
                               current_offset |-> off])
    IN IF st.batch_idx >= total_batches THEN { st.all_results }
       ELSE IF no_conditions THEN next(st.all_results, st.current_offset)
       ELSE IF skip_batch THEN next(st.all_results, st.current_offset + batch_count)
       ELSE IF remaining_needed <= 0 THEN { st.all_results }
       ELSE UNION { LET all_results == st.all_results
                                         \o Slice(rows, skip_in_batch, skip_in_batch + remaining_needed)
                    IN IF Len(all_results) >= page_size
                       THEN { Limit(all_results, page_size) }
                       ELSE next(all_results, current_offset) :
                    rows \in sql_order_by(JoinUsers(u, f, match), col, desc) }

\* smart_pagination_service: the answers it can give
smart_pagination_service(u, h, o, c, f, supervisor_id, page, page_size, sort_by, sort_order) ==
    LET p == query_permissions(h, o, c, supervisor_id)
        batch_size == IF page <= EarlyPages THEN SmallBatch ELSE BatchSize
        total_count == IF page = 1
                       THEN estimate_total_count(f, p.subordinate_ids, p.order_ids, p.customer_ids)
                       ELSE 0
        total_pages == total_pages_of(total_count, page_size)
    IN { [items |-> results,
          total_count |-> total_count,
          has_next |-> page < total_pages,
          has_prev |-> page > 1,
          error |-> FALSE] :
         results \in optimized_batches(u, f, p, page_size, (page - 1) * page_size,
                                       SortCol(f, sort_by), sort_order = "DESC", batch_size,
                                       [batch_idx |-> 0, all_results |-> << >>, current_offset |-> 0]) }

(***************************************************************************)
(* alternative_permission_with_pagination.py: keyset pagination            *)
(***************************************************************************)
\* the WHERE clause "c1 OR c2 OR c3 AND f.<sort_by> > %s": AND binds
\* tighter than OR, so the cursor condition belongs to the last condition
where_v3(f, conditions, k, last_id, col, desc) ==
    LET holds(i) == f[k][conditions[i][1]] \in Range(conditions[i][2])
        n == Len(conditions)
        after == IF desc THEN col[k] < last_id ELSE col[k] > last_id
    IN IF last_id > 0
       THEN (\E i \in 1..(n - 1) : holds(i)) \/ (holds(n) /\ after)
       ELSE \E i \in 1..n : holds(i)

\* "has_next = len(results) > page_size"
v3_has_next(results, page_size) == Len(results) > page_size

\* get_financial_funds_with_pagination_v3: the answers it can give
get_financial_funds_with_pagination_v3(u, f, handle_by_ids, order_ids, customer_ids, last_id, page_size, sort_by, sort_order) ==
    LET conditions ==
            (IF handle_by_ids # << >> THEN << <<"handle_by", handle_by_ids>> >> ELSE << >>)
         \o (IF order_ids # << >> THEN << <<"order_id", order_ids>> >> ELSE << >>)
         \o (IF customer_ids # << >> THEN << <<"customer_id", customer_ids>> >> ELSE << >>)
        col == SortCol(f, sort_by)
        desc == (sort_order = "DESC")
        match == { k \in DOMAIN f : where_v3(f, conditions, k, last_id, col, desc) }
    IN IF conditions = << >> THEN { [items |-> << >>, has_next |-> FALSE] }
       ELSE { LET results == Limit(rows, page_size + 1)
                  has_next == v3_has_next(results, page_size)
              IN [items |-> IF has_next THEN SubSeq(results, 1, Len(results) - 1) ELSE results,
                  has_next |-> has_next] :
              rows \in sql_order_by(JoinUsers(u, f, match), col, desc) }

\* verify_or_logic.py get_funds_with_direct_or_query
get_funds_with_direct_or_query(f, permissions) ==
    IF permissions.subordinate_ids = << >> /\ permissions.order_ids = << >>
         /\ permissions.customer_ids = << >>
    THEN {}
    ELSE MatchOr(f, Range(permissions.subordinate_ids), Range(permissions.order_ids),
                 Range(permissions.customer_ids))

\* verify_or_logic.py get_funds_with_temp_table_approach: the same three
\* loops of INSERT IGNORE batches into a table whose primary key is fund_id
get_funds_with_temp_table_approach(f, permissions) ==
    LET t1 == insert_batches(<< >>, f, "handle_by", permissions.subordinate_ids, 0)
        t2 == insert_batches(t1, f, "order_id", permissions.order_ids, 0)
    IN Range(insert_batches(t2, f, "customer_id", permissions.customer_ids, 0))

(***************************************************************************)
(* Actions.  A client sends one request, or walks the pages of one query, *)
(* and collects the answer before the next request.                        *)
(***************************************************************************)
Resolvers == {"main", "sqlite", "mysql"}
Strategies == {"parallel", "temp_table", "optimized"}
\* the supervisor_id of the paginated requests
PageUsers == {2}
\* the supervisor_id of the keyset requests: a supervisor and a user whose
\* scope can fit in one page
StreamUsers == {2, 3}
\* the longest id list of a call: three full chunks and one more id
MaxIds == 3 * BatchSize + 1
\* the longest permission list of a verification: more than one batch
MaxListLen == BatchSize + 1
PageSize == 2
MaxPage == 4

Ready == resp = Idle /\ walk = NoWalk

get_subordinates(impl, u, user_id) ==
    CASE impl = "main" -> main_get_subordinates(u, user_id)
      [] impl = "sqlite" -> sqlite_get_subordinates(u, user_id)
      [] impl = "mysql" -> mysql_get_subordinates(u, user_id)

Resolve(impl, user_id) ==
    /\ Ready
    /\ resp' = [op |-> "get_subordinates", impl |-> impl, user |-> user_id,
                subs |-> get_subordinates(impl, users, user_id)]
    /\ UNCHANGED <<tables, memory_cache, walk, threads>>

get_funds(impl, u, o, c, f, user_id) ==
    CASE impl = "main" -> main_get_funds(u, o, c, f, user_id)
      [] impl = "sqlite" -> sqlite_get_funds(u, o, c, f, user_id)
      [] impl = "mysql" -> mysql_get_funds(u, o, c, f, user_id)

\* ApiGateway.get_funds for an authenticated user of the users table; the
\* users of main.py are the four base users
GetFunds(impl, user_id) ==
    /\ Ready
    /\ impl = "main" => user_id \in BaseUserIds
    /\ resp' = [op |-> "get_funds", impl |-> impl, user |-> user_id,
                items |-> get_funds(impl, users, orders, customers, financial_funds, user_id)]
    /\ UNCHANGED <<tables, memory_cache, walk, threads>>

\* verify_or_logic.py: the direct OR query for the permissions of a user
DirectOrQuery(supervisor_id) ==
    /\ Ready
    /\ resp' = [op |-> "direct_or", impl |-> "direct_or", user |-> supervisor_id,
                ids |-> get_funds_with_direct_or_query(financial_funds,
                            query_permissions(user_hierarchy, orders, customers, supervisor_id))]
    /\ UNCHANGED <<tables, memory_cache, walk, threads>>

\* the id lists the executors are called with: the first n ids of a column
id_base(field) ==
    CASE field = "handle_by" -> 0 [] field = "order_id" -> 2000 [] field = "customer_id" -> 3000

id_list_of(field, n) == [ i \in 1..n |-> id_base(field) + i ]

\* verify_or_logic.py: both approaches on the same permission lists, here the
\* first nh user ids, the first no order ids and the first nc customer ids
VerifyOrLogic(nh, no, nc) ==
    /\ Ready
    /\ LET permissions == [subordinate_ids |-> id_list_of("handle_by", nh),
                           order_ids |-> id_list_of("order_id", no),
                           customer_ids |-> id_list_of("customer_id", nc)]
       IN resp' = [op |-> "verify_or", permissions |-> permissions,
                   or_query_result |-> get_funds_with_direct_or_query(financial_funds, permissions),
                   temp_table_result |-> get_funds_with_temp_table_approach(financial_funds, permissions),
                   temp_table |-> create_temp_permission_table(financial_funds,
                        permissions.subordinate_ids, permissions.order_ids, permissions.customer_ids)]
    /\ UNCHANGED <<tables, memory_cache, walk, threads>>

\* the answers of one page request of a strategy
page_answers(impl, supervisor_id, page, sort_by, sort_order) ==
    CASE impl = "parallel" ->
            { get_paginated_financial_data(memory_cache, user_hierarchy, orders, customers,
                  financial_funds, supervisor_id, page, PageSize, sort_by, sort_order, {}) }
      [] impl = "temp_table" ->
            accurate_pagination_service(users, user_hierarchy, orders, customers,
                  financial_funds, supervisor_id, page, PageSize, sort_by, sort_order)
      [] impl = "optimized" ->
            smart_pagination_service(users, user_hierarchy, orders, customers,
                  financial_funds, supervisor_id, page, PageSize, sort_by, sort_order)

FetchPage(impl, supervisor_id, page, sort_by, sort_order, seen, totals) ==
    /\ \E a \in page_answers(impl, supervisor_id, page, sort_by, sort_order) :
          /\ resp' = [op |-> "page", impl |-> impl, user |-> supervisor_id, page |-> page,
                      page_size |-> PageSize, sort_by |-> sort_by, sort_order |-> sort_order,
                      items |-> a.items, total_count |-> a.total_count,
                      has_next |-> a.has_next, has_prev |-> a.has_prev, error |-> a.error,
                      failing |-> {}, transient |-> FALSE]
          /\ walk' = [kind |-> "pages", page |-> page, seen |-> seen \o a.items,
                      totals |-> totals \cup {a.total_count}, done |-> a.items = << >>]
    /\ memory_cache' = IF impl = "parallel"
                       THEN cache_after(memory_cache, user_hierarchy, orders, customers, supervisor_id)
                       ELSE memory_cache
    /\ UNCHANGED <<tables, threads>>

\* the first page of a query
FirstPage(impl, supervisor_id, sort_by, sort_order) ==
    /\ Ready
    /\ FetchPage(impl, supervisor_id, 1, sort_by, sort_order, << >>, {})

\* the page after the last one, for the same query
NextPage ==
    /\ walk.kind = "pages"
    /\ ~ walk.done
    /\ walk.page < MaxPage
    /\ FetchPage(resp.impl, resp.user, walk.page + 1, resp.sort_by, resp.sort_order,
                 walk.seen, walk.totals)

FetchStream(supervisor_id, last_id, page, sort_by, sort_order, seen) ==
    LET p == query_permissions(user_hierarchy, orders, customers, supervisor_id)
    IN /\ \E a \in get_financial_funds_with_pagination_v3(users, financial_funds,
                        p.subordinate_ids, p.order_ids, p.customer_ids,
                        last_id, PageSize, sort_by, sort_order) :
             /\ resp' = [op |-> "stream", impl |-> "v3", user |-> supervisor_id,
                         last_id |-> last_id, page_size |-> PageSize,
                         sort_by |-> sort_by, sort_order |-> sort_order,
                         items |-> a.items, has_next |-> a.has_next]
             /\ walk' = [kind |-> "keyset", page |-> page, seen |-> seen \o a.items,
                         done |-> ~ a.has_next]
       /\ UNCHANGED <<tables, memory_cache, threads>>

\* the chunk queries of a page request of the parallel strategy
ChunkQueries(supervisor_id) ==
    LET p == get_user_permissions(memory_cache, user_hierarchy, orders, customers, supervisor_id)
    IN { <<"handle_by", i>> : i \in batch_offsets(p.subordinate_ids) }
         \cup { <<"order_id", i>> : i \in batch_offsets(p.order_ids) }
         \cup { <<"customer_id", i>> : i \in batch_offsets(p.customer_ids) }

\* a page request of the parallel strategy during which one chunk query
\* raises (a backend error or a timeout); transient says whether the same
\* query would succeed when sent again
PageWithFailure(supervisor_id, sort_by, sort_order, q, transient) ==
    /\ Ready
    /\ q \in ChunkQueries(supervisor_id)
    /\ LET a == get_paginated_financial_data(memory_cache, user_hierarchy, orders, customers,
                     financial_funds, supervisor_id, 1, PageSize, sort_by, sort_order, {q})
       IN resp' = [op |-> "page", impl |-> "parallel", user |-> supervisor_id, page |-> 1,
                   page_size |-> PageSize, sort_by |-> sort_by, sort_order |-> sort_order,
                   items |-> a.items, total_count |-> a.total_count,
                   has_next |-> a.has_next, has_prev |-> a.has_prev, error |-> a.error,
                   failing |-> {q}, transient |-> transient]
    /\ memory_cache' = cache_after(memory_cache, user_hierarchy, orders, customers, supervisor_id)
    /\ UNCHANGED <<tables, walk, threads>>

\* one call of a chunked executor on an id list: execute_batch_query of the
\* parallel strategy, execute_chunked_query of the SQLite service
BatchQuery(impl, field, n) ==
    /\ Ready
    /\ LET ids == id_list_of(field, n)
       IN resp' = [op |-> "batch", impl |-> impl, field |-> field, params |-> ids,
                   chunk_size |-> IF impl = "parallel" THEN BatchSize ELSE MaxVars,
                   chunks |-> IF impl = "parallel" THEN batch_query_chunks(ids, 0)
                              ELSE chunked_query_chunks(financial_funds, field, ids, 0, << >>),
                   rows |-> IF impl = "parallel"
                            THEN execute_batch_query(financial_funds, field, ids, 0)
                            ELSE execute_chunked_query(financial_funds, field, ids, 0, << >>)]
    /\ UNCHANGED <<tables, memory_cache, walk, threads>>

\* requests whose sort_by is no column the service sorts by, or whose
\* sort_order is no direction
InvalidSorts == { <<"created_at", "ASC">>, <<"created_at", "DESC">>, <<"amount", "DOWN">> }

\* a page request of the parallel strategy with an invalid sort
InvalidSortPage(supervisor_id, sort_by, sort_order) ==
    /\ Ready
    /\ LET a == get_paginated_financial_data(memory_cache, user_hierarchy, orders, customers,
                     financial_funds, supervisor_id, 1, PageSize, sort_by, sort_order, {})
       IN resp' = [op |-> "invalid_sort", impl |-> "parallel", user |-> supervisor_id,
                   sort_by |-> sort_by, sort_order |-> sort_order,
                   items |-> a.items, total_count |-> a.total_count, error |-> a.error]
    /\ memory_cache' = cache_after(memory_cache, user_hierarchy, orders, customers, supervisor_id)
    /\ UNCHANGED <<tables, walk, threads>>

\* keyset pagination without a cursor
FirstStream(supervisor_id, sort_by, sort_order) ==
    /\ Ready
    /\ FetchStream(supervisor_id, 0, 1, sort_by, sort_order, << >>)

\* keyset pagination with the last seen key of the page before
NextStream ==
    /\ walk.kind = "keyset"
    /\ ~ walk.done
    /\ walk.page < MaxPage
    /\ resp.items # << >>
    /\ FetchStream(resp.user,
                   SortCol(financial_funds, resp.sort_by)[resp.items[Len(resp.items)]],
                   walk.page + 1, resp.sort_by, resp.sort_order, walk.seen)

(***************************************************************************)
(* Threads in get_user_permissions (simulate_concurrent_load runs the      *)
(* requests of several users in a ThreadPoolExecutor).  A call is three    *)
(* steps: the cache lookup, the three queries, the store.                  *)
(***************************************************************************)
\* cached_permissions = permission_cache.get_permissions(supervisor_id)
Lookup(c, supervisor_id) ==
    /\ callers[c].pc = "idle"
    /\ LET cached_permissions == get_permissions(memory_cache, supervisor_id)
           \* stale: the key was last stored more than ttl seconds ago
           call == [key |-> supervisor_id,
                    stale |-> /\ supervisor_id \in DOMAIN stored_at
                              /\ now > stored_at[supervisor_id] + Ttl]
       IN callers' = [callers EXCEPT ![c] =
             IF cached_permissions.found
             THEN call @@ [pc |-> "done", hit |-> TRUE, data |-> cached_permissions.data]
             ELSE call @@ [pc |-> "miss", hit |-> FALSE]]
    /\ UNCHANGED <<tables, memory_cache, resp, walk, now, timers, stored_at>>

\* the queries of the subordinates, the orders and the customers
QueryPermissions(c) ==
    /\ callers[c].pc = "miss"
    /\ callers' = [callers EXCEPT ![c] =
          [key |-> @.key, stale |-> @.stale, hit |-> FALSE,
           pc |-> "queried",
           data |-> query_permissions(user_hierarchy, orders, customers, @.key)]]
    /\ UNCHANGED <<tables, memory_cache, resp, walk, now, timers, stored_at>>

\* permission_cache.set_permissions(supervisor_id, permissions_data): the
\* entry is stored and a timer of ttl seconds is started
StorePermissions(c) ==
    /\ callers[c].pc = "queried"
    /\ memory_cache' = set_permissions(memory_cache, callers[c].key, callers[c].data)
    /\ timers' = timers \cup {[key |-> callers[c].key, due |-> now + Ttl]}
    /\ stored_at' = [k \in DOMAIN stored_at \cup {callers[c].key} |->
                        IF k = callers[c].key THEN now ELSE stored_at[k]]
    /\ callers' = [callers EXCEPT ![c].pc = "done"]
    /\ UNCHANGED <<tables, resp, walk, now>>

\* return permissions_data / return cached_permissions
ReturnPermissions(c) ==
    /\ callers[c].pc = "done"
    /\ callers' = [callers EXCEPT ![c] = IdleCaller]
    /\ UNCHANGED <<tables, memory_cache, resp, walk, now, timers, stored_at>>

\* a timer of threading.Timer(ttl, ...) runs its function when it is due
TimerFires(t) ==
    /\ t \in timers
    /\ t.due <= now
    /\ memory_cache' = timer_pop(memory_cache, t.key)
    /\ timers' = timers \ {t}
    /\ UNCHANGED <<tables, resp, walk, callers, now, stored_at>>

\* a second passes; the timers that are due run first
Tick ==
    /\ now < MaxTime
    /\ \A t \in timers : t.due > now
    /\ now' = now + 1
    /\ UNCHANGED <<tables, memory_cache, resp, walk, callers, timers, stored_at>>

\* the client has read the answer
Collect ==
    /\ resp # Idle
    /\ resp' = Idle
    /\ walk' = NoWalk
    /\ UNCHANGED <<tables, memory_cache, threads>>

\* the supervisors whose permissions the threads ask for
CacheKeys == {2, 3}

Next ==
    \/ \E impl \in Resolvers, user_id \in UserIds \cup UnknownUserIds : Resolve(impl, user_id)
    \/ \E impl \in Resolvers, user_id \in UserIds : GetFunds(impl, user_id)
    \/ \E supervisor_id \in PageUsers : DirectOrQuery(supervisor_id)
    \/ \E impl \in Strategies, supervisor_id \in PageUsers, sort_by \in SortKeys,
          sort_order \in SortOrders : FirstPage(impl, supervisor_id, sort_by, sort_order)
    \/ NextPage
    \/ \E supervisor_id \in PageUsers, sort_by \in SortKeys, sort_order \in SortOrders,
          q \in {"handle_by", "order_id", "customer_id"} \X {0, BatchSize},
          transient \in BOOLEAN :
          PageWithFailure(supervisor_id, sort_by, sort_order, q, transient)
    \/ \E supervisor_id \in StreamUsers, sort_by \in SortKeys, sort_order \in SortOrders :
          FirstStream(supervisor_id, sort_by, sort_order)
    \/ NextStream
    \/ \E impl \in {"parallel", "sqlite"}, field \in {"handle_by", "order_id", "customer_id"},
          n \in 0..MaxIds : BatchQuery(impl, field, n)
    \/ \E nh \in 0..MaxListLen, no \in 0..MaxListLen, nc \in 0..MaxListLen :
          VerifyOrLogic(nh, no, nc)
    \/ \E supervisor_id \in PageUsers, s \in InvalidSorts :
          InvalidSortPage(supervisor_id, s[1], s[2])
    \/ Collect

Spec == Init /\ [][Next]_vars

\* the permission cache under concurrent callers and a running clock
NextCache ==
    \/ \E c \in Callers, supervisor_id \in CacheKeys : Lookup(c, supervisor_id)
    \/ \E c \in Callers : QueryPermissions(c)
    \/ \E c \in Callers : StorePermissions(c)
    \/ \E c \in Callers : ReturnPermissions(c)
    \/ \E t \in timers : TimerFires(t)
    \/ Tick

(***************************************************************************)
(* The hierarchy on a users table that was edited after the load: the      *)
(* parent_id column has no constraint, so a parent may be any user.  The   *)
(* traversals run one row at a time.                                       *)
(***************************************************************************)
\* a traversal stops being followed after a user was visited MaxVisits times
MaxVisits == 2

\* the users tables: user 1 without a parent or under user 3, user 4 under
\* user 1 or under user 5, user 5 as generated
EditedUsers ==
    { [x \in UserIds |->
         CASE x = 1 -> [role |-> "admin", parent_id |-> p1]
           [] x = 4 -> [role |-> "staff", parent_id |-> p4]
           [] x = 5 -> g
           [] OTHER -> base_users[x]] :
      p1 \in {NULL, 3}, p4 \in {1, 5}, g \in GenUserChoices }

InitHierarchy ==
    /\ users \in EditedUsers
    /\ orders = base_orders @@ (2004 :> 4)
    /\ customers = base_customers @@ (3004 :> 4)
    /\ financial_funds = base_funds
    /\ user_hierarchy = insert_bulk_hierarchy(users)
    /\ memory_cache = [u \in {} |-> 0]
    /\ resp = Idle
    /\ walk = NoWalk
    /\ callers = [c \in Callers |-> IdleCaller]
    /\ now = 0
    /\ timers = {}
    /\ stored_at = [k \in {} |-> 0]
    /\ mv_supervisor_financial = {}
    /\ last_refresh = NoRefresh
    /\ db_pool = create_pool
    /\ opened = Range(create_pool)
    /\ broken = {}
    /\ workers = [w \in Workers |-> [pc |-> "idle"]]
    /\ cache_lock = NULL

(***************************************************************************)
(* The scripts that rebuild user_hierarchy from users.parent_id.  Each      *)
(* starts with TRUNCATE TABLE user_hierarchy, which commits.                *)
(***************************************************************************)
\* PRIMARY KEY (user_id, subordinate_id): an INSERT that brings two rows of
\* one key fails with a duplicate-key error; the scripts catch the error and
\* leave the truncated table
pk_insert(rows) ==
    IF \A r1, r2 \in rows : (r1[1] = r2[1] /\ r1[2] = r2[2]) => r1 = r2 THEN rows ELSE {}

\* SELECT DISTINCT p.parent_id, p.id, 1 FROM users p WHERE p.parent_id IS NOT
\* NULL AND p.parent_id IN (SELECT id FROM users)
direct_relations(u) ==
    { <<u[x].parent_id, x, 1>> :
        x \in { y \in DOMAIN u : u[y].parent_id # NULL /\ u[y].parent_id \in DOMAIN u } }

\* INSERT ... SELECT DISTINCT h1.user_id, h2.subordinate_id, depth FROM
\* user_hierarchy h1 JOIN user_hierarchy h2 ON h1.subordinate_id = h2.user_id
\* WHERE h1.depth = 1 AND h2.depth = depth - 1 AND NOT EXISTS (the pair)
indirect_relations(h, depth) ==
    { <<p[1][1], p[2][2], depth>> :
        p \in { q \in h \X h :
                  /\ q[1][3] = 1 /\ q[2][3] = depth - 1 /\ q[1][2] = q[2][1]
                  /\ ~ \E h3 \in h : h3[1] = q[1][1] /\ h3[2] = q[2][2] } }

\* simple_fix_hierarchy.py fix_hierarchy_simple: depth 1, then 2, then 3
fix_hierarchy_simple(u) ==
    LET h1 == direct_relations(u)
        h2 == h1 \cup indirect_relations(h1, 2)
    IN h2 \cup indirect_relations(h2, 3)

\* batch_fix_hierarchy.py batch_insert_hierarchy: the direct relations, read
\* and inserted in batches
batch_insert_hierarchy(u) == pk_insert(direct_relations(u))

\* "WHERE h.depth < 5" of the recursive query of step2_build_hierarchy
RebuildDepthLimit == 5

RECURSIVE step2_hierarchy(_, _, _)
\* the rows of WITH RECURSIVE hierarchy: level holds the rows of one depth
step2_hierarchy(u, level, depth) ==
    IF level = {} THEN {}
    ELSE level \cup
         (IF depth < RebuildDepthLimit
          THEN step2_hierarchy(u, UNION { { <<r[1], x, depth + 1>> :
                                              x \in Range(ChildrenOf(u, r[2])) } : r \in level },
                               depth + 1)
          ELSE {})

\* efficient_rebuild.py step2_build_hierarchy: the anchor takes every user
\* with a parent_id
step2_build_hierarchy(u) ==
    pk_insert(step2_hierarchy(u,
        { <<u[x].parent_id, x, 1>> : x \in { y \in DOMAIN u : u[y].parent_id # NULL } }, 1))

RECURSIVE build_tree_for_user(_, _, _, _, _)
RECURSIVE build_tree_children(_, _, _, _, _, _)
\* fix_user_hierarchy.py build_tree_for_user: h is the table so far
build_tree_for_user(u, h, user_id, depth, visited) ==
    IF user_id \in visited THEN h
    ELSE build_tree_children(u, h, user_id, depth, visited \cup {user_id},
                             ChildrenOf(u, user_id))

\* the loop "for child_id in children" of build_tree_for_user
build_tree_children(u, h, user_id, depth, visited, children) ==
    IF children = << >> THEN h
    ELSE LET child_id == Head(children)
             h1 == build_tree_for_user(u, h \cup {<<user_id, child_id, depth + 1>>},
                                       child_id, depth + 1, visited)
             indirect_subordinates == { r \in h1 : r[1] = child_id /\ r[3] > 0 }
             h2 == h1 \cup { <<user_id, r[2], depth + 1 + r[3]>> : r \in indirect_subordinates }
         IN build_tree_children(u, h2, user_id, depth, visited, Tail(children))

\* fix_user_hierarchy.py build_hierarchy_from_users: a tree for every root
build_hierarchy_from_users(u) ==
    LET root_users == SortAsc({ x \in DOMAIN u :
                                  u[x].parent_id = NULL \/ u[x].parent_id \notin DOMAIN u })
        RECURSIVE trees(_, _)
        trees(h, roots) ==
            IF roots = << >> THEN h
            ELSE trees(build_tree_for_user(u, h, Head(roots), 0, {}), Tail(roots))
    IN pk_insert(trees({}, root_users))

RebuildScripts == {"simple_fix", "batch_fix", "efficient_rebuild", "fix_user_hierarchy"}

rebuild(script, u) ==
    CASE script = "simple_fix" -> fix_hierarchy_simple(u)
      [] script = "batch_fix" -> batch_insert_hierarchy(u)
      [] script = "efficient_rebuild" -> step2_build_hierarchy(u)
      [] script = "fix_user_hierarchy" -> build_hierarchy_from_users(u)

\* a rebuild script runs to its end
Rebuild(script) ==
    /\ Ready
    /\ user_hierarchy' = rebuild(script, users)
    /\ resp' = [op |-> "rebuild", script |-> script]
    /\ UNCHANGED <<users, orders, customers, financial_funds, snapshot, pooling, cache_lock,
                   memory_cache, walk,
                   threads>>

\* get_subordinates is called: main.py starts with stack = [user_id], the
\* recursive query of mysql_database.py with the row of the user
StartTraversal(impl, user_id) ==
    /\ Ready
    /\ resp' = [op |-> "traverse", impl |-> impl, user |-> user_id,
                stack |-> <<user_id>>, subordinates |-> {},
                visits |-> [x \in UserIds |-> 0]]
    /\ UNCHANGED <<tables, memory_cache, walk, threads>>

\* one turn of the loop: main.py pops the last user of the stack, adds it to
\* subordinates and pushes the users whose parent it is; the recursive query
\* (UNION ALL) takes the oldest row, returns it and joins users to it
TraverseStep ==
    /\ resp.op = "traverse"
    /\ resp.stack # << >>
    /\ LET n == Len(resp.stack)
           current == IF resp.impl = "main" THEN resp.stack[n] ELSE Head(resp.stack)
           rest == IF resp.impl = "main" THEN SubSeq(resp.stack, 1, n - 1) ELSE Tail(resp.stack)
       IN /\ resp.visits[current] < MaxVisits
          /\ resp' = [resp EXCEPT !.stack = rest \o ChildrenOf(users, current),
                                  !.subordinates = @ \cup {current},
                                  !.visits[current] = @ + 1]
    /\ UNCHANGED <<tables, memory_cache, walk, threads>>

NextHierarchy ==
    \/ \E impl \in {"main", "mysql"}, user_id \in UserIds : StartTraversal(impl, user_id)
    \/ TraverseStep
    \/ \E script \in RebuildScripts : Rebuild(script)
    \/ Collect

SpecHierarchy == InitHierarchy /\ [][NextHierarchy]_vars

(***************************************************************************)
(* The snapshot mv_supervisor_financial: a row is (supervisor_id, fund_id,  *)
(* permission_type).  TRUNCATE, DROP and CREATE commit; a failed statement  *)
(* is rolled back together with the statements of its open transaction.    *)
(* fail is the number of the INSERT that raises, 0 when none does.          *)
(***************************************************************************)
\* batch_size = 50 supervisors of fast_truncate_and_rebuild, batch_size = 100
\* of get_supervisor_batches
RebuildBatch == 2
PopulateBatch == 3

\* SELECT h.user_id, f.fund_id FROM user_hierarchy h JOIN financial_funds f
\* ON h.subordinate_id = f.handle_by JOIN users u ON f.handle_by = u.id, for
\* the supervisors sups and the depths from min_depth
handle_rows(h, f, u, sups, min_depth) ==
    { <<q[1][1], q[2], "handle">> :
        q \in { x \in h \X (DOMAIN f) :
                  /\ x[1][1] \in sups /\ x[1][3] >= min_depth
                  /\ f[x[2]].handle_by = x[1][2] /\ f[x[2]].handle_by \in DOMAIN u } }

\* the supervisor ids of user_hierarchy
supervisors_of(h) == { r[1] : r \in h }

\* refresh_materialized_view of fix_user_hierarchy.py (depth >= 0) and of
\* simple_fix_hierarchy.py (depth > 0), create_materialized_view of
\* materialized_view_test.py (depth >= 0): the table is emptied, then filled
\* by one INSERT
refresh_materialized_view(h, f, u, min_depth, fail) ==
    IF fail = 1 THEN [rows |-> {}, ok |-> FALSE]
    ELSE [rows |-> handle_rows(h, f, u, supervisors_of(h), min_depth), ok |-> TRUE]

\* the slices of batch_size supervisors, as a sequence of sets
batches_of(list, batch_size) ==
    [ b \in 1..((Len(list) + batch_size - 1) \div batch_size) |->
        Range(Slice(list, (b - 1) * batch_size, b * batch_size)) ]

\* incremental_mv_refresh.py fast_truncate_and_rebuild: TRUNCATE, then one
\* INSERT per batch of supervisors in one transaction
fast_truncate_and_rebuild(h, f, u, fail) ==
    LET batches == batches_of(SortAsc(supervisors_of(h)), RebuildBatch)
    IN IF fail \in 1..Len(batches) THEN [rows |-> {}, ok |-> FALSE]
       ELSE [rows |-> handle_rows(h, f, u, supervisors_of(h), 0), ok |-> TRUE]

\* optimize_materialized_view_init.py: the table is created anew, then
\* process_supervisor_batch inserts and commits every batch on its own
\* connection; the supervisors are ordered by their number of rows
parallel_populate_materialized_view(h, f, u, fail) ==
    LET count == [x \in supervisors_of(h) |-> Cardinality({ r \in h : r[1] = x })]
        batches == batches_of(list_sort(SortAsc(supervisors_of(h)), count, TRUE), PopulateBatch)
        done == { b \in 1..Len(batches) : b # fail }
    IN [rows |-> handle_rows(h, f, u, UNION { batches[b] : b \in done }, 0),
        ok |-> fail \notin 1..Len(batches)]

\* extend_materialized_view.py populate_extended_materialized_view into the
\* table mv_supervisor_financial_v2
populate_extended_materialized_view(h, o, c, f, u) ==
    LET handle == handle_rows(h, f, u, supervisors_of(h), 0)
        has(rows, r, k) == \E x \in rows : x[1] = r /\ x[2] = k
        order == { <<q[1][1], q[2], "order">> :
                     q \in { x \in h \X (DOMAIN f) :
                               /\ o[f[x[2]].order_id] = x[1][2]
                               /\ ~ has(handle, x[1][1], x[2]) } }
        customer == { <<q[1][1], q[2], "customer">> :
                        q \in { x \in h \X (DOMAIN f) :
                                  /\ c[f[x[2]].customer_id] = x[1][2]
                                  /\ ~ has(handle \cup order, x[1][1], x[2]) } }
    IN handle \cup order \cup customer

\* extend_materialized_view.py main: the new table replaces the snapshot
\* (RENAME TABLE) only after it was filled
extend_materialized_view(before, h, o, c, f, u, fail) ==
    LET rows == populate_extended_materialized_view(h, o, c, f, u)
    IN IF fail \in 1..3 \/ rows = {} THEN [rows |-> before, ok |-> FALSE]
       ELSE [rows |-> rows, ok |-> TRUE]

\* incremental_mv_refresh.py smart_incremental_refresh, one transaction: the
\* rows of supervisors without hierarchy rows are deleted, and the handle
\* rows replace the rows of a supervisor that is missing or whose number of
\* rows is not the number of its handle rows
smart_incremental_refresh(before, h, f, u, fail) ==
    LET of(rows, x) == { r \in rows : r[1] = x }
        actual(x) == handle_rows(h, f, u, {x}, 0)
        stale == { x \in supervisors_of(h) :
                     Cardinality(of(before, x)) # Cardinality(actual(x)) }
    IN IF fail = 1 THEN [rows |-> before, ok |-> FALSE]
       ELSE [rows |-> { r \in before : r[1] \in supervisors_of(h) \ stale }
                        \cup handle_rows(h, f, u, stale, 0),
             ok |-> TRUE]

RefreshPaths ==
    {"create_materialized_view", "fix_user_hierarchy", "simple_fix_hierarchy",
     "fast_truncate_and_rebuild", "parallel_populate", "extend_materialized_view",
     "smart_incremental_refresh"}

refresh(path, before, h, o, c, f, u, fail) ==
    CASE path \in {"create_materialized_view", "fix_user_hierarchy"} ->
            refresh_materialized_view(h, f, u, 0, fail)
      [] path = "simple_fix_hierarchy" -> refresh_materialized_view(h, f, u, 1, fail)
      [] path = "fast_truncate_and_rebuild" -> fast_truncate_and_rebuild(h, f, u, fail)
      [] path = "parallel_populate" -> parallel_populate_materialized_view(h, f, u, fail)
      [] path = "extend_materialized_view" -> extend_materialized_view(before, h, o, c, f, u, fail)
      [] path = "smart_incremental_refresh" -> smart_incremental_refresh(before, h, f, u, fail)

\* a refresh of the snapshot runs to its end
Refresh(path, fail) ==
    /\ Ready
    /\ LET r == refresh(path, mv_supervisor_financial, user_hierarchy, orders, customers,
                        financial_funds, users, fail)
       IN /\ mv_supervisor_financial' = r.rows
          /\ last_refresh' = [path |-> path, ok |-> r.ok, before |-> mv_supervisor_financial]
          /\ resp' = [op |-> "refresh", path |-> path, ok |-> r.ok]
    /\ UNCHANGED <<users, orders, customers, financial_funds, user_hierarchy, pooling,
                   cache_lock, memory_cache,
                   walk, threads>>

\* a reader of the snapshot: SELECT COUNT(*) and the fund ids of a supervisor
ReadSnapshot(supervisor_id) ==
    /\ Ready
    /\ last_refresh.path # "none"
    /\ LET rows == { r \in mv_supervisor_financial : r[1] = supervisor_id }
       IN resp' = [op |-> "mv_read", user |-> supervisor_id,
                   total_count |-> Cardinality(rows), ids |-> { r[2] : r \in rows }]
    /\ UNCHANGED <<tables, memory_cache, walk, threads>>

NextSnapshot ==
    \/ \E path \in RefreshPaths, fail \in 0..2 : Refresh(path, fail)
    \/ \E supervisor_id \in PageUsers : ReadSnapshot(supervisor_id)
    \/ Collect

SpecSnapshot == Init /\ [][NextSnapshot]_vars

(***************************************************************************)
(* ConnectionPool of high_concurrency_pagination.py and the three places   *)
(* that take a connection: conn = db_pool.get_connection(); try: ...        *)
(* finally: db_pool.return_connection(conn).  A connection is named by a    *)
(* number; a new connection takes the least number that is not open.        *)
(***************************************************************************)
ConnIds == 1..(2 * PoolSize + 1)

Sites == {"get_user_permissions", "execute_batch_query", "get_paginated_financial_data"}

\* get_connection: the last connection of the pool, or a new connection
\* when the pool is empty
get_connection(pool, open) ==
    IF pool # << >>
    THEN [conn |-> pool[Len(pool)], pool |-> SubSeq(pool, 1, Len(pool) - 1), opened |-> open]
    ELSE LET conn == MinOf(ConnIds \ open)
         IN [conn |-> conn, pool |-> pool, opened |-> open \cup {conn}]

\* a return_connection that appends whatever the pool holds
return_connection_appends(pool, open, lost, conn) ==
    [pool |-> Append(pool, conn), opened |-> open, closed |-> FALSE]

\* return_connection: back into the pool when the pool has room and the
\* connection is connected, closed otherwise
return_connection(pool, open, lost, conn) ==
    IF Len(pool) < PoolSize /\ conn \notin lost
    THEN [pool |-> Append(pool, conn), opened |-> open, closed |-> FALSE]
    ELSE [pool |-> pool, opened |-> open \ {conn}, closed |-> TRUE]

\* conn = db_pool.get_connection() at one of the three places
Checkout(w, site) ==
    /\ workers[w].pc \in {"idle", "done"}
    /\ LET r == get_connection(db_pool, opened)
       IN /\ db_pool' = r.pool
          /\ opened' = r.opened
          /\ workers' = [workers EXCEPT ![w] = [pc |-> "try", site |-> site, conn |-> r.conn]]
    /\ UNCHANGED <<users, orders, customers, financial_funds, user_hierarchy, snapshot,
                   broken, cache_lock, memory_cache, resp, walk, threads>>

\* the body of the try block: the queries return, or one raises, or one
\* raises because the connection lost its session
RunQuery(w, outcome) ==
    /\ workers[w].pc = "try"
    /\ workers' = [workers EXCEPT ![w] = [pc |-> "finally", conn |-> @.conn,
                                          raised |-> outcome # "ok"]]
    /\ broken' = IF outcome = "lost" THEN broken \cup {workers[w].conn} ELSE broken
    /\ UNCHANGED <<users, orders, customers, financial_funds, user_hierarchy, snapshot,
                   db_pool, opened, cache_lock, memory_cache, resp, walk, threads>>

\* the finally block: db_pool.return_connection(conn)
ReturnConnection(w) ==
    /\ workers[w].pc = "finally"
    /\ LET r == return_connection(db_pool, opened, broken, workers[w].conn)
       IN /\ db_pool' = r.pool
          /\ opened' = r.opened
          /\ broken' = broken \cap r.opened
          /\ workers' = [workers EXCEPT ![w] = [pc |-> "done", raised |-> @.raised,
                                                closed |-> r.closed]]
    /\ UNCHANGED <<users, orders, customers, financial_funds, user_hierarchy, snapshot,
                   cache_lock, memory_cache, resp, walk, threads>>

NextPool ==
    \/ \E w \in Workers, site \in Sites : Checkout(w, site)
    \/ \E w \in Workers, outcome \in {"ok", "raise", "lost"} : RunQuery(w, outcome)
    \/ \E w \in Workers : ReturnConnection(w)

\* the tables of one load: the threads do not write to them
InitCache ==
    /\ Init
    /\ users[5] = [role |-> "staff", parent_id |-> 2]
    /\ orders[2004] = 5
    /\ customers[3004] = 5
    /\ financial_funds[1004] = [handle_by |-> 2, order_id |-> 2004, customer_id |-> 3004,
                                amount |-> 50000]

SpecCache == InitCache /\ [][NextCache]_vars

SpecPool == InitCache /\ [][NextPool]_vars

(***************************************************************************)
(* The lock of the memory cache (PermissionCache without Redis): both       *)
(* get_permissions and set_permissions run their body in                    *)
(* "with self.cache_lock:".  A thread that reaches the with statement       *)
(* while another thread is inside waits there.                              *)
(***************************************************************************)
\* a thread calls get_permissions or set_permissions and reaches the with
\* statement
EnterCache(c, op, supervisor_id) ==
    /\ callers[c].pc = "idle"
    /\ callers' = [callers EXCEPT ![c] = [pc |-> "wait", op |-> op, key |-> supervisor_id]]
    /\ UNCHANGED <<tables, memory_cache, resp, walk, now, timers, stored_at>>

\* the with statement takes the lock when no thread holds it
AcquireLock(c) ==
    /\ callers[c].pc = "wait"
    /\ cache_lock = NULL
    /\ cache_lock' = c
    /\ callers' = [callers EXCEPT ![c].pc = "locked"]
    /\ UNCHANGED <<users, orders, customers, financial_funds, user_hierarchy, snapshot,
                   pooling, memory_cache, resp, walk, now, timers, stored_at>>

\* the body of the with statement, and the release of the lock at its end
ReleaseLock(c) ==
    /\ callers[c].pc = "locked"
    /\ cache_lock = c
    /\ cache_lock' = NULL
    /\ callers' = [callers EXCEPT ![c] = IdleCaller]
    /\ LET key == callers[c].key
       IN IF callers[c].op = "set"
          THEN /\ memory_cache' = set_permissions(memory_cache, key,
                                      query_permissions(user_hierarchy, orders, customers, key))
               /\ timers' = timers \cup {[key |-> key, due |-> now + Ttl]}
               /\ stored_at' = [k \in DOMAIN stored_at \cup {key} |->
                                   IF k = key THEN now ELSE stored_at[k]]
          ELSE UNCHANGED <<memory_cache, timers, stored_at>>
    /\ UNCHANGED <<users, orders, customers, financial_funds, user_hierarchy, snapshot,
                   pooling, resp, walk, now>>

NextLock ==
    \/ \E c \in Callers, op \in {"get", "set"}, supervisor_id \in CacheKeys :
          EnterCache(c, op, supervisor_id)
    \/ \E c \in Callers : AcquireLock(c)
    \/ \E c \in Callers : ReleaseLock(c)
    \/ \E t \in timers : TimerFires(t)
    \/ Tick

SpecLock == InitCache /\ [][NextLock]_vars

(***************************************************************************)
(* What the claims speak about                                             *)
(***************************************************************************)
RECURSIVE ReportsTo(_)
\* the users reachable from the users of S by following parent_id upwards to
\* S, i.e. S and all its transitive subordinates
ReportsTo(S) ==
    LET more == S \cup { x \in DOMAIN users : users[x].parent_id \in S }
    IN IF more = S THEN S ELSE ReportsTo(more)

\* the funds a user is authorized for: handled by, ordered by or administered
\* by the user or a transitive subordinate
Authorized(user_id) ==
    LET team == ReportsTo({user_id})
    IN { k \in DOMAIN financial_funds :
           \/ financial_funds[k].handle_by \in team
           \/ orders[financial_funds[k].order_id] \in team
           \/ customers[financial_funds[k].customer_id] \in team }

\* the funds that match the permission lists read from the hierarchy table
Qualifying(supervisor_id) ==
    LET p == query_permissions(user_hierarchy, orders, customers, supervisor_id)
    IN MatchOr(financial_funds, Range(p.subordinate_ids), Range(p.order_ids),
               Range(p.customer_ids))

ReturnsFunds == resp.op \in {"get_funds", "page", "stream"}

AdminList == resp.op = "get_funds" /\ users[resp.user].role = "admin"

SupervisorList == resp.op = "get_funds" /\ users[resp.user].role = "supervisor"

\* C1 as stated: every record returned to any user, in a list or a page, is
\* handled by, ordered by or administered by the user or one of the user's
\* transitive subordinates.
C1_EveryReturnedRecordAuthorized ==
    ReturnsFunds => Range(resp.items) \subseteq Authorized(resp.user)

\* C1 amended: every record returned in a page of a paginated strategy, and
\* every record of the list of a user whose role is not admin, is handled
\* by, ordered by or administered by the user or one of the user's
\* transitive subordinates.
C1_NonAdminRecordsAuthorized ==
    (ReturnsFunds /\ ~ AdminList) => Range(resp.items) \subseteq Authorized(resp.user)

\* a supervisor gets a non-empty answer while a fund outside the
\* supervisor's authorized set exists
C1_Witness ==
    /\ ReturnsFunds
    /\ resp.user = 2
    /\ resp.items # << >>
    /\ Authorized(2) # DOMAIN financial_funds
    /\ \E k \in Range(resp.items) : financial_funds[k].handle_by \notin ReportsTo({2})

\* C2: the list a supervisor gets is the union of the three dimensions over
\* the supervisor's subordinate set; a record that matches one dimension
\* only is in it.
C2_ListIsUnionOfDimensions ==
    (SupervisorList /\ resp.impl \in {"main", "mysql"})
        => Range(resp.items) = Authorized(resp.user)

\* C3: a list never silently omits authorized records (the list services
\* have no error or degradation answer, so the list has to be complete).
C3_NoSilentOmission ==
    (SupervisorList /\ resp.impl \in {"sqlite", "mysql"})
        => \A k \in Authorized(resp.user) : k \in Range(resp.items)

\* C4: resolve(userId) of a user of the users table returns the full set of
\* users reachable from userId (no resolver of the model answers with an
\* error).
C4_FullClosure ==
    (resp.op = "get_subordinates" /\ resp.user \in DOMAIN users)
        => resp.subs = ReportsTo({resp.user})

\* C5: the set returned by resolve(userId) contains userId, also for an id
\* without a users row, and the subordinate ids of every cached scope contain
\* the requesting user's id.
C5_ResolveContainsSelf ==
    /\ resp.op = "get_subordinates" => resp.user \in resp.subs
    /\ \A k \in DOMAIN memory_cache : k \in Range(memory_cache[k].subordinate_ids)

\* C6: the merged result of the per-dimension, per-chunk queries holds each
\* fund at most once, so the total of a page counts every qualifying fund
\* once, also a fund that matches two or three dimensions.
C6_MergedOnce ==
    /\ \A s \in PageUsers :
          LET p == query_permissions(user_hierarchy, orders, customers, s)
          IN /\ NoDup(get_financial_funds_parallel(financial_funds, p.subordinate_ids,
                                                   p.order_ids, p.customer_ids, {}))
             /\ NoDup(create_temp_permission_table(financial_funds, p.subordinate_ids,
                                                   p.order_ids, p.customer_ids))
    /\ (resp.op = "page" /\ resp.impl \in {"parallel", "temp_table"} /\ resp.failing = {})
          => resp.total_count = Cardinality(Qualifying(resp.user))

\* a page of the parallel strategy for a scope in which a fund matches the
\* handler dimension and the order dimension
C6_Witness ==
    /\ resp.op = "page"
    /\ resp.impl = "parallel"
    /\ resp.items # << >>
    /\ LET p == query_permissions(user_hierarchy, orders, customers, resp.user)
       IN \E k \in DOMAIN financial_funds :
             /\ financial_funds[k].handle_by \in Range(p.subordinate_ids)
             /\ financial_funds[k].order_id \in Range(p.order_ids)
             /\ financial_funds[k].customer_id \in Range(p.customer_ids)

\* C7: the pages 1..N of a query sorted by fund_id hold no fund twice, and
\* once an empty page ends the walk they hold exactly the qualifying funds.
C7_RoundTrip ==
    (walk.kind = "pages" /\ resp.sort_by = "fund_id")
        => /\ NoDup(walk.seen)
           /\ walk.done => Range(walk.seen) = Qualifying(resp.user)

\* C8: the total_count is the same on every page of a walk and equals the
\* number of items of all its pages.
C8_TotalCountConsistent ==
    walk.kind = "pages"
        => /\ Cardinality(walk.totals) = 1
           /\ walk.done => walk.totals = { Len(walk.seen) }

\* C9: keyset pagination that starts without a cursor and passes the last
\* seen key visits no row twice and, when has_next is false, has visited
\* every qualifying row.
C9_KeysetExactlyOnce ==
    walk.kind = "keyset"
        => /\ NoDup(walk.seen)
           /\ walk.done => Range(walk.seen) = Qualifying(resp.user)

\* C10: the items of a page of the parallel strategy are in the order of the
\* sort key, rows with equal sort keys in ascending fund id.
C10_TiesByIdAscending ==
    (resp.op = "page" /\ resp.impl = "parallel")
        => LET key == SortCol(financial_funds, resp.sort_by)
           IN \A i, j \in 1..Len(resp.items) :
                 i < j => \/ IF resp.sort_order = "DESC"
                             THEN key[resp.items[i]] > key[resp.items[j]]
                             ELSE key[resp.items[i]] < key[resp.items[j]]
                          \/ /\ key[resp.items[i]] = key[resp.items[j]]
                             /\ resp.items[i] < resp.items[j]

\* the qualifying rows that are not in the page of a keyset answer and whose
\* sort key is not before the key of the last row of the page
FurtherRows ==
    LET key == SortCol(financial_funds, resp.sort_by)
        last == resp.items[Len(resp.items)]
    IN { k \in Qualifying(resp.user) \ Range(resp.items) :
           \/ resp.items = << >>
           \/ IF resp.sort_order = "DESC" THEN key[k] <= key[last] ELSE key[k] >= key[last] }

\* C11: a keyset answer holds at most page_size rows, a full page when
\* has_next is true, and has_next is true exactly when a further qualifying
\* row exists after the returned page (the look-ahead row is not in the page).
C11_HasNextIsLookAhead ==
    resp.op = "stream"
        => /\ Len(resp.items) <= resp.page_size
           /\ resp.has_next => Len(resp.items) = resp.page_size
           /\ resp.has_next <=> FurtherRows # {}

\* C12: when the query of a chunk fails during a page request of the
\* parallel strategy and keeps failing, the request ends with an error; no
\* page built from the other chunks and dimensions is returned.
C12_FailedChunkFailsRequest ==
    (resp.op = "page" /\ resp.failing # {} /\ ~ resp.transient) => resp.error

\* C13: when the query of a chunk fails with a transient error (it would
\* succeed when sent again), it is retried, its rows are in the result and
\* the request succeeds.
C13_TransientFailureRetried ==
    (resp.op = "page" /\ resp.failing # {} /\ resp.transient)
        => /\ ~ resp.error
           /\ resp.total_count = Cardinality(Qualifying(resp.user))

\* C14: a chunked executor called with n ids and chunk size c sends exactly
\* ceil(n / c) chunk queries, each of at most c ids, every id in exactly
\* one chunk, and returns as many rows as there are funds whose column is
\* one of the ids.
C14_ChunksPartitionIds ==
    resp.op = "batch"
        => LET n == Len(resp.params)
               c == resp.chunk_size
               chunks_with(id) == { k \in 1..Len(resp.chunks) : id \in Range(resp.chunks[k]) }
           IN /\ Len(resp.chunks) = (n + c - 1) \div c
              /\ \A k \in 1..Len(resp.chunks) : Len(resp.chunks[k]) <= c
              /\ \A id \in Range(resp.params) : Cardinality(chunks_with(id)) = 1
              /\ Len(resp.rows) = Cardinality({ k \in DOMAIN financial_funds :
                       FundCol(financial_funds, resp.field)[k] \in Range(resp.params) })

\* C15: at most one computation of the permissions of a key is in flight at
\* a time: callers that look up the same uncached key do not each run the
\* queries.
C15_SingleFlight ==
    \A k \in CacheKeys :
        Cardinality({ c \in Callers : callers[c].pc \in {"miss", "queried"}
                                       /\ callers[c].key = k }) <= 1

\* C16: a lookup made more than ttl seconds after the last store of its key
\* does not return the stored entry: it misses, and the permissions are
\* computed again.
C16_EntryExpiresAfterTtl ==
    \A c \in Callers :
        (callers[c].pc # "idle" /\ callers[c].stale) => ~ callers[c].hit

\* a caller has looked up a key more than ttl seconds after its last store and
\* has computed the permissions again
C16_Witness ==
    \E c \in Callers :
        /\ callers[c].pc = "queried"
        /\ callers[c].stale

\* C17: the resolution of a hierarchy is safe on cyclic parent_id data: it
\* visits every user at most once (so it ends after at most one turn per
\* user), and when it has ended it has the set of the users reachable from
\* the start.
C17_CycleSafe ==
    resp.op = "traverse"
        => /\ \A x \in UserIds : resp.visits[x] <= 1
           /\ resp.stack = << >> => resp.subordinates = ReportsTo({resp.user})

\* C18: after the hierarchy table was rebuilt from users.parent_id, its
\* edges between different users are, for every ancestor, exactly the pairs
\* of the transitive closure: the ancestor and each of its transitive
\* subordinates.
C18_RebuildIsTransitiveClosure ==
    resp.op = "rebuild"
        => { <<r[1], r[2]>> : r \in { x \in user_hierarchy : x[1] # x[2] } }
             = { p \in (DOMAIN users) \X (DOMAIN users) :
                     p[1] # p[2] /\ p[2] \in ReportsTo({p[1]}) }

\* C19: the hierarchy table holds a depth-0 edge from every user to itself
\* and no edge of negative depth, after the initial load and after every
\* rebuild.
C19_SelfEdgesAndNoNegativeDepth ==
    /\ \A x \in DOMAIN users : <<x, x, 0>> \in user_hierarchy
    /\ \A r \in user_hierarchy : r[3] >= 0

\* C20: a page request with an invalid sort key or an invalid sort direction
\* is rejected with an error; it is not answered with a page in a default
\* order.
C20_InvalidSortRejected ==
    resp.op = "invalid_sort" => (resp.error /\ resp.items = << >>)

\* C21: for any permission lists, the fund ids collected by the batches of
\* INSERT IGNORE into the temporary table are the fund ids the single OR
\* query over the three dimensions returns.
C21_TempTableEqualsOrQuery ==
    resp.op = "verify_or"
        => /\ resp.temp_table_result = resp.or_query_result
           /\ Range(resp.temp_table) = resp.or_query_result

\* a verification whose lists need more than one batch and whose dimensions
\* overlap: a fund matches two of them
C21_Witness ==
    /\ resp.op = "verify_or"
    /\ Len(resp.permissions.subordinate_ids) > BatchSize
    /\ \E k \in resp.or_query_result :
          /\ financial_funds[k].handle_by \in Range(resp.permissions.subordinate_ids)
          /\ financial_funds[k].order_id \in Range(resp.permissions.order_ids)
    /\ \E k \in resp.or_query_result :
          financial_funds[k].handle_by \in
              Range(Slice(resp.permissions.subordinate_ids, BatchSize, MaxListLen))

\* C22: the tables do not change, so after create_materialized_view or
\* extend_materialized_view succeeded, a read of the snapshot reports, for a
\* supervisor, the total count and the fund ids of the live computation
\* over the three dimensions.
C22_SnapshotEqualsLive ==
    (/\ resp.op = "mv_read" /\ last_refresh.ok
     /\ last_refresh.path \in {"create_materialized_view", "extend_materialized_view"})
        => /\ resp.ids = Qualifying(resp.user)
           /\ resp.total_count = Cardinality(Qualifying(resp.user))

\* C25: the live scope of a supervisor and the snapshot that a successful
\* refresh published agree on the supervisor's own records: the funds the
\* supervisor handles are in the supervisor's snapshot rows exactly when
\* the supervisor is in the live list of subordinate ids.
C25_OwnRecordsOneSetting ==
    (last_refresh.path # "none" /\ last_refresh.ok) =>
        \A s \in supervisors_of(user_hierarchy) :
            (s \in Range(query_permissions(user_hierarchy, orders, customers, s).subordinate_ids))
                <=> (\A k \in DOMAIN financial_funds :
                        financial_funds[k].handle_by = s
                            => \E r \in mv_supervisor_financial : r[1] = s /\ r[2] = k)

\* C28: a refresh that failed part-way leaves the snapshot that was
\* published before it unchanged.
C28_FailedRefreshKeepsSnapshot ==
    (last_refresh.path # "none" /\ ~ last_refresh.ok)
        => mv_supervisor_financial = last_refresh.before

\* C23: the connections that are open at the server never exceed the size
\* of the pool: a checkout from the exhausted pool opens no connection.
C23_OpenConnectionsWithinPoolSize == Cardinality(opened) <= PoolSize

\* C27: no connection is leaked or returned twice: an open connection is
\* either once in the idle pool or held by exactly one thread that has yet
\* to hand it back, a closed connection is in neither, and the idle pool
\* never holds more than pool_size connections.
C27_NoLeakNoDoubleReturn ==
    /\ Len(db_pool) <= PoolSize
    /\ NoDup(db_pool)
    /\ \A conn \in ConnIds :
          LET holders == { w \in Workers : /\ workers[w].pc \in {"try", "finally"}
                                           /\ workers[w].conn = conn }
          IN Cardinality(holders) + (IF conn \in Range(db_pool) THEN 1 ELSE 0)
                = (IF conn \in opened THEN 1 ELSE 0)

\* a query raised, and the connection was handed back by closing it because
\* the pool was full; another query raised and its connection went back
\* into the pool
C27_Witness ==
    /\ \E w \in Workers : workers[w].pc = "done" /\ workers[w].raised /\ workers[w].closed
    /\ \E w \in Workers : workers[w].pc = "done" /\ workers[w].raised /\ ~ workers[w].closed
    /\ Len(db_pool) = PoolSize

\* C24: a thread that waits for the lock of the cache waits only for an
\* operation on its own key: the holder of the lock works on the same key.
C24_PerKeyLocking ==
    \A c \in Callers :
        (callers[c].pc = "wait" /\ cache_lock # NULL)
            => callers[cache_lock].key = callers[c].key

\* C26: storing an entry again restarts its lifetime: as long as less than
\* ttl seconds have passed since the last store of a key, the key's entry
\* is in the cache (no timer of an earlier store has removed it).
C26_RestoreRestartsLifetime ==
    \A k \in DOMAIN stored_at :
        now < stored_at[k] + Ttl => k \in DOMAIN memory_cache

RECURSIVE Up(_, _)
\* the user reached from x by n reports-to steps (parent_id), NULL when the
\* chain ends before
Up(x, n) ==
    IF x \notin DOMAIN users THEN NULL
    ELSE IF n = 0 THEN x
    ELSE Up(users[x].parent_id, n - 1)

\* C29: after a rebuild the depth of every stored edge is the number of
\* reports-to steps from the descendant up to the ancestor, and every
\* (ancestor, descendant) pair is stored at most once.
C29_DepthIsStepsAndPairsUnique ==
    resp.op = "rebuild"
        => /\ \A r \in user_hierarchy : r[3] >= 0 /\ Up(r[2], r[3]) = r[1]
           /\ \A r1, r2 \in user_hierarchy :
                 (r1[1] = r2[1] /\ r1[2] = r2[2]) => r1 = r2

\* C30: the flags of a page agree with the pages: has_prev is true exactly
\* when the page number is above 1, and has_next is true exactly when the
\* request for the next page of the same query returns at least one item.
C30_PageFlagsAgree ==
    (resp.op = "page" /\ ~ resp.error /\ resp.failing = {})
        => /\ resp.has_prev <=> resp.page > 1
           /\ \A a \in page_answers(resp.impl, resp.user, resp.page + 1, resp.sort_by,
                                     resp.sort_order) :
                 resp.has_next <=> a.items # << >>

====
